---- MODULE Spec2Model ----
(***************************************************************************)
(* Model of ORCA-Input-Builder.py: the document assembler (build_keywords, *)
(* format_coords, build_input) as operators over strings, and the Tk event *)
(* handlers of ORCAInputBuilder as actions over the widget state.          *)
(***************************************************************************)
EXTENDS Integers, Sequences, FiniteSets, TLC

VARIABLES job_type, method, basis, charge, mult, custom_keywords, solvent,
          flags, maxcore, nprocs, auto_format_coords,
          coords_text, cb_text, preview_text, preview_locked, last

vars == <<job_type, method, basis, charge, mult, custom_keywords, solvent,
          flags, maxcore, nprocs, auto_format_coords,
          coords_text, cb_text, preview_text, preview_locked, last>>

(* everything the handlers read or write except the observation record     *)
progvars == <<job_type, method, basis, charge, mult, custom_keywords, solvent,
              flags, maxcore, nprocs, auto_format_coords,
              coords_text, cb_text, preview_text, preview_locked>>

-----------------------------------------------------------------------------
(* Bounds                                                                  *)

MaxLen == 5

-----------------------------------------------------------------------------
(* Python str primitives used by the assembler                             *)

Whitespace == {" ", "\t", "\n", "\r", "\f"}

LineBreaks == {"\n", "\r", "\f"}

Digits == {"0", "1", "2", "3", "4", "5", "6", "7", "8", "9"}

CharAt(s, i) == SubSeq(s, i, i)

RECURSIVE LStrip(_)
LStrip(s) ==
  IF Len(s) > 0 /\ CharAt(s, 1) \in Whitespace THEN LStrip(Tail(s)) ELSE s

RECURSIVE RStrip(_)
RStrip(s) ==
  IF Len(s) > 0 /\ CharAt(s, Len(s)) \in Whitespace
  THEN RStrip(SubSeq(s, 1, Len(s) - 1)) ELSE s

Strip(s) == RStrip(LStrip(s))

IsDigit(s) == Len(s) > 0 /\ \A i \in 1..Len(s) : CharAt(s, i) \in Digits

(* index of the first line break at or after position i, 0 when none       *)
RECURSIVE NextBreak(_, _)
NextBreak(s, i) ==
  IF i > Len(s) THEN 0
  ELSE IF CharAt(s, i) \in LineBreaks THEN i
  ELSE NextBreak(s, i + 1)

(* str.splitlines(): no empty last element after a final line break, and   *)
(* "\r\n" counts as one break                                               *)
RECURSIVE SplitLines(_)
SplitLines(s) ==
  IF Len(s) = 0 THEN <<>>
  ELSE LET b == NextBreak(s, 1) IN
       IF b = 0 THEN <<s>>
       ELSE LET w == IF CharAt(s, b) = "\r" /\ b < Len(s) /\ CharAt(s, b + 1) = "\n"
                     THEN 2 ELSE 1
            IN <<SubSeq(s, 1, b - 1)>> \o SplitLines(SubSeq(s, b + w, Len(s)))

(* sep.join(parts)                                                         *)
RECURSIVE Join(_, _)
Join(sep, parts) ==
  IF Len(parts) = 0 THEN ""
  ELSE IF Len(parts) = 1 THEN parts[1]
  ELSE parts[1] \o sep \o Join(sep, Tail(parts))

(* [p for p in parts if p]                                                 *)
RECURSIVE NonEmpty(_)
NonEmpty(parts) ==
  IF Len(parts) = 0 THEN <<>>
  ELSE IF parts[1] = "" THEN NonEmpty(Tail(parts))
  ELSE <<parts[1]>> \o NonEmpty(Tail(parts))

(* sub in s                                                                *)
Contains(s, sub) ==
  \E i \in 1..(Len(s) - Len(sub) + 1) : SubSeq(s, i, i + Len(sub) - 1) = sub

(* tk.Text.get('1.0', tk.END): the widget's content and its final newline  *)
TextGet(w) == w \o "\n"

-----------------------------------------------------------------------------
(* Module-level tables                                                     *)

JobTypes == {"Single Point (SP)", "Geometry Optimization (OPT)",
             "Vibrational Frequency (FREQ)", "OPT + FREQ",
             "Excited States (TD-DFT)", "Scan", "Transition State (TS)",
             "Solvation", "Molecular Mechanics (MM)", "QM/MM"}

(* variant: the default job type contributes no keyword                    *)
JOB_KEYWORDS_DefaultSilent(key) ==
  CASE key = "Geometry Optimization (OPT)" -> "Opt"
    [] key = "Vibrational Frequency (FREQ)" -> "Freq"
    [] key = "OPT + FREQ" -> "Opt Freq"
    [] key = "Excited States (TD-DFT)" -> "TDDFT"
    [] key = "Scan" -> "Opt Scan"
    [] key = "Transition State (TS)" -> "OptTS"
    [] key = "Solvation" -> "Opt CPCM"
    [] key = "Molecular Mechanics (MM)" -> "MM"
    [] key = "QM/MM" -> "QMMM"
    [] OTHER -> ""

(* JOB_KEYWORDS.get(key, '')                                               *)
JOB_KEYWORDS(key) ==
  CASE key = "Single Point (SP)" -> "SP"
    [] key = "Geometry Optimization (OPT)" -> "Opt"
    [] key = "Vibrational Frequency (FREQ)" -> "Freq"
    [] key = "OPT + FREQ" -> "Opt Freq"
    [] key = "Excited States (TD-DFT)" -> "TDDFT"
    [] key = "Scan" -> "Opt Scan"
    [] key = "Transition State (TS)" -> "OptTS"
    [] key = "Solvation" -> "Opt CPCM"
    [] key = "Molecular Mechanics (MM)" -> "MM"
    [] key = "QM/MM" -> "QMMM"
    [] OTHER -> ""

COMMON_METHODS == {"B3LYP", "PBE0", "wB97X-D", "PBE", "M06-2X", "HF", "B97-D3"}

COMMON_BASIS == {"def2-SVP", "def2-TZVP", "def2-QZVP", "6-31G*", "6-311G**",
                 "cc-pVDZ", "cc-pVTZ"}

SOLVENTS == {"Water", "Methanol", "Ethanol", "Acetonitrile", "Dichloromethane",
             "Toluene"}

(* the (variable, label) pairs in declaration order                        *)
extras_vars ==
  << <<"tightscf", "TightSCF">>, <<"d3bj", "D3BJ">>, <<"rij", "RIJCOSX">>,
     <<"grid5", "Grid5">>, <<"cpcm", "CPCM">>, <<"verytightscf", "VeryTightSCF">>,
     <<"slowconv", "SlowConv">>, <<"defgrid3", "DefGrid3">>,
     <<"defgridx", "DefGridX">> >>

FlagVars == {extras_vars[i][1] : i \in 1..Len(extras_vars)}

-----------------------------------------------------------------------------
(* The assembler                                                           *)

(* the values build_input reads from the variables and widgets             *)
Inputs ==
  [job_type |-> job_type, method |-> method, basis |-> basis,
   charge |-> charge, mult |-> mult, custom_keywords |-> custom_keywords,
   solvent |-> solvent, flags |-> flags, maxcore |-> maxcore,
   nprocs |-> nprocs, auto_format_coords |-> auto_format_coords,
   coords_text |-> coords_text, cb_text |-> cb_text]

(* the labels appended by the loop over extras_vars, from position i on    *)
RECURSIVE EnabledLabels(_, _)
EnabledLabels(in, i) ==
  IF i > Len(extras_vars) THEN <<>>
  ELSE (IF in.flags[extras_vars[i][1]] = 1 THEN <<extras_vars[i][2]>> ELSE <<>>)
       \o EnabledLabels(in, i + 1)

(* variant: the custom keywords are appended as typed, not trimmed         *)
build_keywords_Untrimmed(in) ==
  LET parts == <<JOB_KEYWORDS(in.job_type)>>
               \o EnabledLabels(in, 1)
               \o (IF Strip(in.custom_keywords) # ""
                   THEN <<in.custom_keywords>> ELSE <<>>)
  IN Strip(Join(" ", NonEmpty(parts)))

build_keywords(in) ==
  LET parts == <<JOB_KEYWORDS(in.job_type)>>
               \o EnabledLabels(in, 1)
               \o (IF Strip(in.custom_keywords) # ""
                   THEN <<Strip(in.custom_keywords)>> ELSE <<>>)
  IN Strip(Join(" ", NonEmpty(parts)))

(* variant: only the count line is dropped                                 *)
format_coords_KeepComment(text0) ==
  LET text == Strip(text0) IN
  IF text = "" THEN ""
  ELSE LET lines == SplitLines(text) IN
       IF Len(lines) > 1 /\ IsDigit(Strip(lines[1]))
       THEN Strip(Join("\n", SubSeq(lines, 2, Len(lines))))
       ELSE text

format_coords(text0) ==
  LET text == Strip(text0) IN
  IF text = "" THEN ""
  ELSE LET lines == SplitLines(text) IN
       IF Len(lines) > 1 /\ IsDigit(Strip(lines[1]))
       THEN Strip(Join("\n", SubSeq(lines, 3, Len(lines))))
       ELSE text

(* build_input, one operator per local variable                           *)

header(in) ==
  LET extra_kw == build_keywords(in) IN
  "! " \o Strip(in.method) \o " " \o Strip(in.basis)
  \o (IF extra_kw # "" THEN " " \o extra_kw ELSE "")
  \o "\n\n"

res_block(in) ==
  "%maxcore " \o in.maxcore \o "\n%pal nprocs " \o in.nprocs \o " end\n\n"

(* variant: only the CPCM checkbox is consulted                            *)
cpcm_block_FlagOnly(in) ==
  IF in.flags["cpcm"] = 1
  THEN "%cpcm\n  smd true\n  SMDsolvent \"" \o in.solvent \o "\"\nend\n\n"
  ELSE ""

cpcm_block(in) ==
  IF Contains(build_keywords(in), "CPCM") \/ in.job_type = "Solvation"
     \/ in.flags["cpcm"] = 1
  THEN "%cpcm\n  smd true\n  SMDsolvent \"" \o in.solvent \o "\"\nend\n\n"
  ELSE ""

coords(in) ==
  IF in.auto_format_coords = 1
  THEN format_coords(TextGet(in.coords_text))
  ELSE Strip(TextGet(in.coords_text))

xyz_block(in) ==
  IF coords(in) # ""
  THEN "* xyz " \o in.charge \o " " \o in.mult \o "\n" \o coords(in) \o "\n*\n"
  ELSE ""

custom_block_text(in) ==
  LET cb == Strip(TextGet(in.cb_text)) IN
  IF cb # "" THEN cb \o "\n\n" ELSE ""

(* variant: the coordinate block is placed before the custom blocks       *)
build_input_CoordsFirst(in) ==
  header(in) \o res_block(in) \o cpcm_block(in) \o xyz_block(in)
  \o custom_block_text(in)

build_input(in) ==
  header(in) \o res_block(in) \o cpcm_block(in) \o custom_block_text(in)
  \o xyz_block(in)

-----------------------------------------------------------------------------
(* Initial state: ORCAInputBuilder.__init__                                *)

DefaultFlags == [v \in FlagVars |-> IF v = "tightscf" THEN 1 ELSE 0]

(* what the last handler did: whether update_preview ran, whether the     *)
(* empty-input question was asked, and what reached the chosen file        *)
Obs(op, outcome, upd, asked, wrote) ==
  [op |-> op, outcome |-> outcome, upd |-> upd, asked |-> asked, wrote |-> wrote]

Init ==
  /\ job_type = "Single Point (SP)"
  /\ method = "B3LYP"
  /\ basis = "def2-SVP"
  /\ charge = "0"
  /\ mult = "1"
  /\ custom_keywords = ""
  /\ solvent = "Water"
  /\ flags = DefaultFlags
  /\ maxcore = "2000"
  /\ nprocs = "4"
  /\ auto_format_coords = 1
  /\ coords_text = ""
  /\ cb_text = ""
  /\ preview_locked = TRUE
  /\ preview_text = build_input(Inputs)
  /\ last = Obs("init", "ok", TRUE, FALSE, <<>>)

-----------------------------------------------------------------------------
(* Values the user and the file system supply                              *)

MenuJobTypes == {"Single Point (SP)", "Solvation"}
MenuMethods == {"B3LYP"}
MenuBasis == {"def2-SVP"}
MenuSolvents == {"Water"}
ToggledFlags == {"cpcm"}
ChargeEntries == {"0", "-1"}
MultEntries == {"1"}
KeywordEntries == {""}
MaxcoreEntries == {"2000"}
NprocsEntries == {"4"}
CoordTexts == {"", "H 0 0 0", "1\nc\nH 0 0 0"}
CoordFiles == {"1\nc\nH 0 0 0"}
BlockTexts == {"", "%scf end"}
TemplateFiles == {"", "! HF\n"}
HandEdits == {" ", "! x"}
Alphabet == {"3", "H", " ", "\n"}

-----------------------------------------------------------------------------
(* Preview refresh                                                         *)

update_preview(in) == [text |-> build_input(in), upd |-> TRUE]

(* variant: the lock is not consulted                                      *)
update_preview_if_locked_Always(in, locked, shown) == update_preview(in)

update_preview_if_locked(in, locked, shown) ==
  IF locked THEN update_preview(in) ELSE [text |-> shown, upd |-> FALSE]

-----------------------------------------------------------------------------
(* Option menus: the variable is written (its trace runs                   *)
(* update_preview_if_locked), then the menu's command runs update_preview  *)

MenuSelect(op, in) ==
  LET r1 == update_preview_if_locked(in, preview_locked, preview_text)
      r2 == update_preview(in)
  IN /\ preview_text' = r2.text
     /\ last' = Obs(op, "ok", r1.upd \/ r2.upd, FALSE, <<>>)

SelectJobType ==
  \E v \in MenuJobTypes :
    /\ job_type' = v
    /\ MenuSelect("select_job_type", [Inputs EXCEPT !.job_type = v])
    /\ UNCHANGED <<method, basis, charge, mult, custom_keywords, solvent, flags,
                   maxcore, nprocs, auto_format_coords, coords_text, cb_text,
                   preview_locked>>

SelectMethod ==
  \E v \in MenuMethods :
    /\ method' = v
    /\ MenuSelect("select_method", [Inputs EXCEPT !.method = v])
    /\ UNCHANGED <<job_type, basis, charge, mult, custom_keywords, solvent, flags,
                   maxcore, nprocs, auto_format_coords, coords_text, cb_text,
                   preview_locked>>

SelectBasis ==
  \E v \in MenuBasis :
    /\ basis' = v
    /\ MenuSelect("select_basis", [Inputs EXCEPT !.basis = v])
    /\ UNCHANGED <<job_type, method, charge, mult, custom_keywords, solvent, flags,
                   maxcore, nprocs, auto_format_coords, coords_text, cb_text,
                   preview_locked>>

SelectSolvent ==
  \E v \in MenuSolvents :
    /\ solvent' = v
    /\ MenuSelect("select_solvent", [Inputs EXCEPT !.solvent = v])
    /\ UNCHANGED <<job_type, method, basis, charge, mult, custom_keywords, flags,
                   maxcore, nprocs, auto_format_coords, coords_text, cb_text,
                   preview_locked>>

(* Flag checkbutton: toggles its variable, command=self.update_preview     *)
ToggleFlag ==
  \E v \in ToggledFlags :
    LET fl == [flags EXCEPT ![v] = 1 - @]
        r == update_preview([Inputs EXCEPT !.flags = fl])
    IN /\ flags' = fl
       /\ preview_text' = r.text
       /\ last' = Obs("toggle_flag", "ok", r.upd, FALSE, <<>>)
       /\ UNCHANGED <<job_type, method, basis, charge, mult, custom_keywords,
                      solvent, maxcore, nprocs, auto_format_coords, coords_text,
                      cb_text, preview_locked>>

(* 'Auto-format coordinates' checkbutton: no command, no trace             *)
ToggleAutoFormat ==
  /\ auto_format_coords' = 1 - auto_format_coords
  /\ last' = Obs("toggle_auto_format", "ok", FALSE, FALSE, <<>>)
  /\ UNCHANGED <<job_type, method, basis, charge, mult, custom_keywords, solvent,
                 flags, maxcore, nprocs, coords_text, cb_text, preview_text,
                 preview_locked>>

-----------------------------------------------------------------------------
(* Entry fields: each write runs the trace, update_preview_if_locked       *)

TraceWrite(op, in) ==
  LET r == update_preview_if_locked(in, preview_locked, preview_text)
  IN /\ preview_text' = r.text
     /\ last' = Obs(op, "ok", r.upd, FALSE, <<>>)

WriteCharge ==
  \E v \in ChargeEntries :
    /\ charge' = v
    /\ TraceWrite("write_charge", [Inputs EXCEPT !.charge = v])
    /\ UNCHANGED <<job_type, method, basis, mult, custom_keywords, solvent, flags,
                   maxcore, nprocs, auto_format_coords, coords_text, cb_text,
                   preview_locked>>

WriteMult ==
  \E v \in MultEntries :
    /\ mult' = v
    /\ TraceWrite("write_mult", [Inputs EXCEPT !.mult = v])
    /\ UNCHANGED <<job_type, method, basis, charge, custom_keywords, solvent, flags,
                   maxcore, nprocs, auto_format_coords, coords_text, cb_text,
                   preview_locked>>

WriteCustomKeywords ==
  \E v \in KeywordEntries :
    /\ custom_keywords' = v
    /\ TraceWrite("write_custom_keywords", [Inputs EXCEPT !.custom_keywords = v])
    /\ UNCHANGED <<job_type, method, basis, charge, mult, solvent, flags,
                   maxcore, nprocs, auto_format_coords, coords_text, cb_text,
                   preview_locked>>

WriteMaxcore ==
  \E v \in MaxcoreEntries :
    /\ maxcore' = v
    /\ TraceWrite("write_maxcore", [Inputs EXCEPT !.maxcore = v])
    /\ UNCHANGED <<job_type, method, basis, charge, mult, custom_keywords, solvent,
                   flags, nprocs, auto_format_coords, coords_text, cb_text,
                   preview_locked>>

WriteNprocs ==
  \E v \in NprocsEntries :
    /\ nprocs' = v
    /\ TraceWrite("write_nprocs", [Inputs EXCEPT !.nprocs = v])
    /\ UNCHANGED <<job_type, method, basis, charge, mult, custom_keywords, solvent,
                   flags, maxcore, auto_format_coords, coords_text, cb_text,
                   preview_locked>>

-----------------------------------------------------------------------------
(* Text widgets                                                            *)

(* <KeyRelease> in the coordinate text after the keys changed it           *)
KeyCoords ==
  \E v \in CoordTexts :
    /\ coords_text' = v
    /\ TraceWrite("key_coords", [Inputs EXCEPT !.coords_text = v])
    /\ UNCHANGED <<job_type, method, basis, charge, mult, custom_keywords, solvent,
                   flags, maxcore, nprocs, auto_format_coords, cb_text,
                   preview_locked>>

(* <KeyRelease> in the coordinate text after one character was typed       *)
TypeCoords ==
  \E c \in Alphabet :
    /\ Len(coords_text) < MaxLen
    /\ coords_text' = coords_text \o c
    /\ TraceWrite("key_coords", [Inputs EXCEPT !.coords_text = coords_text \o c])
    /\ UNCHANGED <<job_type, method, basis, charge, mult, custom_keywords, solvent,
                   flags, maxcore, nprocs, auto_format_coords, cb_text,
                   preview_locked>>

(* <KeyRelease> in the custom-block text                                   *)
KeyCustomBlock ==
  \E v \in BlockTexts :
    /\ cb_text' = v
    /\ TraceWrite("key_custom_block", [Inputs EXCEPT !.cb_text = v])
    /\ UNCHANGED <<job_type, method, basis, charge, mult, custom_keywords, solvent,
                   flags, maxcore, nprocs, auto_format_coords, coords_text,
                   preview_locked>>

(* typing in the preview text: no binding                                  *)
EditPreview ==
  \E v \in HandEdits :
    /\ preview_text' = v
    /\ last' = Obs("edit_preview", "ok", FALSE, FALSE, <<>>)
    /\ UNCHANGED <<job_type, method, basis, charge, mult, custom_keywords, solvent,
                   flags, maxcore, nprocs, auto_format_coords, coords_text, cb_text,
                   preview_locked>>

toggle_preview_lock ==
  /\ preview_locked' = ~preview_locked
  /\ last' = Obs("toggle_preview_lock", "ok", FALSE, FALSE, <<>>)
  /\ UNCHANGED <<job_type, method, basis, charge, mult, custom_keywords, solvent,
                 flags, maxcore, nprocs, auto_format_coords, coords_text, cb_text,
                 preview_text>>

-----------------------------------------------------------------------------
(* File operations.  The dialog returns a path or nothing; open(), read()  *)
(* and write() either succeed or raise, and a raised exception ends the    *)
(* handler where it stands (Tk reports it and returns to the main loop).   *)

IoOutcomes == {"cancel", "open_error", "read_error", "ok"}

load_coords ==
  \E outcome \in IoOutcomes, c \in CoordFiles :
    LET shown == CASE outcome = "ok" -> c
                   [] outcome = "read_error" -> ""
                   [] OTHER -> coords_text
        r == IF outcome = "ok"
             THEN update_preview_if_locked([Inputs EXCEPT !.coords_text = shown],
                                           preview_locked, preview_text)
             ELSE [text |-> preview_text, upd |-> FALSE]
    IN /\ coords_text' = shown
       /\ preview_text' = r.text
       /\ last' = Obs("load_coords", outcome, r.upd, FALSE, <<>>)
       /\ UNCHANGED <<job_type, method, basis, charge, mult, custom_keywords,
                      solvent, flags, maxcore, nprocs, auto_format_coords, cb_text,
                      preview_locked>>

clear_coords ==
  /\ coords_text' = ""
  /\ TraceWrite("clear_coords", [Inputs EXCEPT !.coords_text = ""])
  /\ UNCHANGED <<job_type, method, basis, charge, mult, custom_keywords, solvent,
                 flags, maxcore, nprocs, auto_format_coords, cb_text,
                 preview_locked>>

load_template ==
  \E outcome \in IoOutcomes, c \in TemplateFiles :
    /\ preview_text' = CASE outcome = "ok" -> c
                         [] outcome = "read_error" -> ""
                         [] OTHER -> preview_text
    /\ last' = Obs("load_template", outcome, FALSE, FALSE, <<>>)
    /\ UNCHANGED <<job_type, method, basis, charge, mult, custom_keywords, solvent,
                   flags, maxcore, nprocs, auto_format_coords, coords_text, cb_text,
                   preview_locked>>

(* variant: the two sources are exchanged                                  *)
SaveContent_Exchanged(in, locked, shown) ==
  IF locked THEN TextGet(shown) ELSE build_input(in)

(* what save_input hands to f.write                                        *)
SaveContent(in, locked, shown) ==
  IF ~locked THEN TextGet(shown) ELSE build_input(in)

(* the file after open(path, 'w') and f.write(content): untouched when     *)
(* open raises, truncated when the write raises                            *)
Written(outcome, content) ==
  CASE outcome = "ok" -> <<content>>
    [] outcome = "write_error" -> <<"">>
    [] OTHER -> <<>>

SaveOutcomes == {"cancel", "open_error", "write_error", "ok"}

save_input ==
  \E answer \in BOOLEAN, chosen \in SaveOutcomes :
    LET content == SaveContent(Inputs, preview_locked, preview_text)
        blank == Strip(content) = ""
        outcome == IF blank /\ ~answer THEN "declined" ELSE chosen
    IN /\ last' = Obs("save_input", outcome, FALSE, blank, Written(outcome, content))
       /\ UNCHANGED progvars

save_template ==
  \E outcome \in SaveOutcomes :
    /\ last' = Obs("save_template", outcome, FALSE, FALSE,
                   Written(outcome, TextGet(preview_text)))
    /\ UNCHANGED progvars

-----------------------------------------------------------------------------
(* The application: any handler, in any order                              *)

Next == SelectJobType \/ SelectMethod \/ SelectBasis \/ SelectSolvent
        \/ ToggleFlag \/ ToggleAutoFormat
        \/ WriteCharge \/ WriteMult \/ WriteCustomKeywords \/ WriteMaxcore
        \/ WriteNprocs \/ KeyCoords \/ KeyCustomBlock \/ EditPreview
        \/ toggle_preview_lock \/ load_coords \/ clear_coords \/ load_template
        \/ save_input \/ save_template

Spec == Init /\ [][Next]_vars

-----------------------------------------------------------------------------
(* The widget events that change an assembler input or the lock           *)

NextEvents == SelectJobType \/ SelectMethod \/ SelectBasis \/ SelectSolvent
              \/ ToggleFlag \/ ToggleAutoFormat
              \/ WriteCharge \/ WriteMult \/ WriteCustomKeywords \/ WriteMaxcore
              \/ WriteNprocs \/ KeyCoords \/ KeyCustomBlock
              \/ toggle_preview_lock \/ clear_coords

SpecEvents == Init /\ [][NextEvents]_vars

-----------------------------------------------------------------------------
(* The coordinate text typed one character at a time                       *)

NextFormat == TypeCoords \/ ToggleAutoFormat

SpecFormat == Init /\ [][NextFormat]_vars

-----------------------------------------------------------------------------
(* The assembler over the option tables: the form in any of the states     *)
(* below with the preview hand-cleared, then a menu selection that         *)
(* rebuilds the preview                                                    *)

BuildKeywordEntries == {"", " NBO ", "CPCMC", "TightOpt  NoPop"}
BuildMethods == {"B3LYP", "wB97X-D"}
BuildSolvents == {"Water", "Toluene"}
BuildCoordTexts == {"", "H 0 0 0\nH 0 0 1", "2\nc\nH 0 0 0\nH 0 0 1\n"}
BuildBlockTexts == {"", "%scf\n  MaxIter 200\nend\n"}

(* every flag combination, header fields varied                            *)
InitHeaderForms ==
  /\ job_type \in JobTypes
  /\ method \in BuildMethods
  /\ flags \in [FlagVars -> {0, 1}]
  /\ custom_keywords \in BuildKeywordEntries
  /\ solvent = "Water"
  /\ charge = "0"
  /\ auto_format_coords = 1
  /\ coords_text = ""
  /\ cb_text = ""

(* every block of the document varied                                      *)
InitDocumentForms ==
  /\ job_type \in JobTypes
  /\ method = "B3LYP"
  /\ flags \in {f \in [FlagVars -> {0, 1}] :
                  \A v \in FlagVars \ {"tightscf", "cpcm"} : f[v] = 0}
  /\ custom_keywords \in {"", "CPCMC"}
  /\ solvent \in BuildSolvents
  /\ charge \in ChargeEntries
  /\ auto_format_coords \in {0, 1}
  /\ coords_text \in BuildCoordTexts
  /\ cb_text \in BuildBlockTexts

InitBuild ==
  /\ basis = "def2-SVP"
  /\ mult = "1"
  /\ maxcore = "2000"
  /\ nprocs = "4"
  /\ preview_locked = TRUE
  /\ preview_text = " "
  /\ last = Obs("edit_preview", "ok", FALSE, FALSE, <<>>)
  /\ (InitHeaderForms \/ InitDocumentForms)

NextBuild == SelectBasis

SpecBuild == InitBuild /\ [][NextBuild]_vars

-----------------------------------------------------------------------------
(* Vocabulary of the properties                                            *)

(* the text before the first line break                                    *)
HeaderLine(doc) ==
  LET b == NextBreak(doc, 1) IN
  IF b = 0 THEN doc ELSE SubSeq(doc, 1, b - 1)

EndsWith(s, suf) ==
  Len(suf) <= Len(s) /\ SubSeq(s, Len(s) - Len(suf) + 1, Len(s)) = suf

(* the space-separated words of a line                                     *)
RECURSIVE Words(_)
Words(s) ==
  LET t == Strip(s)
      RECURSIVE WordEnd(_)
      WordEnd(i) == IF i > Len(t) \/ CharAt(t, i) \in Whitespace THEN i - 1
                    ELSE WordEnd(i + 1)
  IN IF t = "" THEN <<>>
     ELSE <<SubSeq(t, 1, WordEnd(1))>> \o Words(SubSeq(t, WordEnd(1) + 1, Len(t)))

InSeq(x, q) == \E i \in 1..Len(q) : q[i] = x

(* the flag tokens in the order the document declares them                 *)
DeclaredOrder ==
  << <<"tightscf", "TightSCF">>, <<"d3bj", "D3BJ">>, <<"rij", "RIJCOSX">>,
     <<"grid5", "Grid5">>, <<"cpcm", "CPCM">>, <<"verytightscf", "VeryTightSCF">>,
     <<"slowconv", "SlowConv">>, <<"defgrid3", "DefGrid3">>,
     <<"defgridx", "DefGridX">> >>

RECURSIVE FlagTokens(_)
FlagTokens(i) ==
  IF i > Len(DeclaredOrder) THEN <<>>
  ELSE (IF flags[DeclaredOrder[i][1]] = 1 THEN <<DeclaredOrder[i][2]>> ELSE <<>>)
       \o FlagTokens(i + 1)

OptionalToken(t) == IF t = "" THEN <<>> ELSE <<t>>

SolventDirective ==
  "%cpcm\n  smd true\n  SMDsolvent \"" \o solvent \o "\"\nend\n\n"

SolventEmitted == Contains(build_input(Inputs), SolventDirective)

(* the preview was rebuilt by the last handler and still shows its result  *)
Rebuilt == last.upd /\ preview_text = build_input(Inputs)

-----------------------------------------------------------------------------
(* C1: the header line is "! " and then, joined by single spaces, the job  *)
(* keyword(s), the method, the basis, the enabled flags' tokens in         *)
(* declaration order and the trimmed custom keywords.                      *)
C1_JobKeywordFirst ==
  Rebuilt =>
  HeaderLine(preview_text) =
    "! " \o Join(" ", OptionalToken(JOB_KEYWORDS(job_type)) \o <<method, basis>>
                      \o FlagTokens(1) \o OptionalToken(Strip(custom_keywords)))

(* C1 as the code has it: the method and the basis come first, the job     *)
(* keyword(s) follow them, then the flags' tokens in declaration order,    *)
(* then the trimmed custom keywords.                                       *)
C1_HeaderOrder ==
  HeaderLine(build_input(Inputs)) =
    "! " \o Join(" ", <<method, basis>> \o OptionalToken(JOB_KEYWORDS(job_type))
                      \o FlagTokens(1) \o OptionalToken(Strip(custom_keywords)))

C1_Witness ==
  /\ Rebuilt
  /\ job_type = "OPT + FREQ"
  /\ flags["d3bj"] = 1 /\ flags["defgridx"] = 1 /\ flags["tightscf"] = 1
  /\ custom_keywords = " NBO "
  /\ HeaderLine(preview_text) = "! wB97X-D def2-SVP Opt Freq TightSCF D3BJ DefGridX NBO"

-----------------------------------------------------------------------------
ExampleInputs ==
  /\ job_type = "Single Point (SP)" /\ method = "B3LYP" /\ basis = "def2-SVP"
  /\ flags = [v \in FlagVars |-> IF v = "tightscf" THEN 1 ELSE 0]
  /\ charge = "0" /\ mult = "1" /\ maxcore = "2000" /\ nprocs = "4"
  /\ coords_text = "" /\ custom_keywords = "" /\ cb_text = ""

(* C2: for the example form (Single Point, B3LYP, def2-SVP, TightSCF only, *)
(* 2000 MB, 4 processes, no coordinates, no custom text) the document is   *)
(* the header "! B3LYP def2-SVP TightSCF", a blank line, the two resource  *)
(* lines and a blank line.                                                 *)
C2_ExampleWithoutJobKeyword ==
  ExampleInputs =>
    build_input(Inputs) =
      "! B3LYP def2-SVP TightSCF\n\n%maxcore 2000\n%pal nprocs 4 end\n\n"

(* C2 as the code has it: the header of the example carries the job        *)
(* keyword SP of 'Single Point (SP)' after the basis.                      *)
C2_Example ==
  ExampleInputs =>
    build_input(Inputs) =
      "! B3LYP def2-SVP SP TightSCF\n\n%maxcore 2000\n%pal nprocs 4 end\n\n"

C2_Witness ==
  /\ ExampleInputs
  /\ last.op = "clear_coords"
  /\ Rebuilt

-----------------------------------------------------------------------------
(* C3: the solvent directive is in the document exactly when the CPCM flag *)
(* is enabled, or one of the header line's tokens is the keyword CPCM, or  *)
(* the job type is 'Solvation'.                                            *)
C3_TokenIsCPCM ==
  Rebuilt =>
  SolventEmitted <=>
    \/ flags["cpcm"] = 1
    \/ InSeq("CPCM", Words(HeaderLine(build_input(Inputs))))
    \/ job_type = "Solvation"

(* C3 as the code has it: the middle condition is that the header's        *)
(* keywords (what follows the method and the basis) contain the text CPCM  *)
(* anywhere, also inside a longer keyword.                                 *)
C3_SolventDirective ==
  LET hl == HeaderLine(build_input(Inputs))
      keywords == SubSeq(hl, Len("! " \o method \o " " \o basis) + 1, Len(hl))
  IN /\ SolventEmitted <=>
          \/ flags["cpcm"] = 1
          \/ Contains(keywords, "CPCM")
          \/ job_type = "Solvation"
     /\ (job_type = "Single Point (SP)" /\ flags["cpcm"] = 1 /\ solvent = "Water")
          => Contains(build_input(Inputs), "SMDsolvent \"Water\"")
     /\ (job_type = "Solvation" /\ flags["cpcm"] = 0) => SolventEmitted

C3_Witness ==
  /\ Rebuilt
  /\ job_type = "Solvation" /\ flags["cpcm"] = 0 /\ custom_keywords = ""
  /\ solvent = "Toluene"
  /\ Contains(preview_text, "SMDsolvent \"Toluene\"")

-----------------------------------------------------------------------------
(* C4: the document is the header line and a blank line, the resource      *)
(* directive and a blank line, the solvent directive (when emitted), the   *)
(* trimmed custom-block text and a blank line (when non-empty) and the     *)
(* coordinate directive (when the coordinates are non-empty), in this      *)
(* order; without coordinates there is no '* xyz' line and no '*' line,    *)
(* and the custom block then ends the document.                            *)
C4_Assembly ==
  LET doc == build_input(Inputs)
      atoms == IF auto_format_coords = 1
               THEN format_coords(TextGet(coords_text))
               ELSE Strip(TextGet(coords_text))
      block == Strip(TextGet(cb_text))
      segments ==
        << HeaderLine(doc) \o "\n", "\n",
           "%maxcore " \o maxcore \o "\n", "%pal nprocs " \o nprocs \o " end\n", "\n",
           IF SolventEmitted THEN SolventDirective ELSE "",
           IF block # "" THEN block \o "\n\n" ELSE "",
           IF atoms # ""
           THEN Join("\n", <<"* xyz " \o charge \o " " \o mult, atoms, "*", "">>)
           ELSE "" >>
  IN /\ doc = Join("", segments)
     /\ atoms = "" => ~Contains(doc, "* xyz") /\ ~EndsWith(doc, "*\n")
     /\ (atoms = "" /\ block # "") => EndsWith(doc, block \o "\n\n")

C4_Witness ==
  /\ Rebuilt
  /\ SolventEmitted
  /\ cb_text # "" /\ coords_text # ""
  /\ EndsWith(preview_text, "end\n\n* xyz -1 1\nH 0 0 0\nH 0 0 1\n*\n")

-----------------------------------------------------------------------------
(* what format_coords is given, and what it returns                        *)
RawCoords == TextGet(coords_text)

Formatted == format_coords(RawCoords)

(* the text after the second line break of s, trimmed; "" without one      *)
AfterSecondBreak(s) ==
  LET b1 == NextBreak(s, 1)
      b2 == IF b1 = 0 THEN 0 ELSE NextBreak(s, b1 + 1)
  IN IF b2 = 0 THEN "" ELSE Strip(SubSeq(s, b2 + 1, Len(s)))

-----------------------------------------------------------------------------
(* handlers that end in update_preview_if_locked                           *)
GatedOps == {"key_coords", "key_custom_block", "write_charge", "write_mult",
             "write_custom_keywords", "write_maxcore", "write_nprocs",
             "load_coords", "clear_coords"}

MenuOps == {"select_job_type", "select_method", "select_basis", "select_solvent"}

(* C6: while preview_locked is true, no change of an input (keystroke in   *)
(* the coordinate or custom-block text, write to a traced variable,        *)
(* load or clear of the coordinates) runs update_preview or changes the    *)
(* preview text.                                                           *)
C6_LockedSuppresses ==
  [][(preview_locked /\ last'.op \in GatedOps \cup MenuOps)
       => (~last'.upd /\ preview_text' = preview_text)]_vars

(* C6 as the code has it: the gate is open when preview_locked is true.    *)
(* While preview_locked is false, the handlers that go through             *)
(* update_preview_if_locked (keystroke in the coordinate or custom-block   *)
(* text, write of an entry field, load or clear of the coordinates) do not *)
(* run update_preview and leave the preview text as it is; while it is     *)
(* true, each of them that completes rebuilds the preview from the inputs. *)
C6_Gate ==
  [][last'.op \in GatedOps =>
       IF preview_locked
       THEN last'.outcome = "ok"
              => (last'.upd /\ preview_text' = build_input(Inputs'))
       ELSE ~last'.upd /\ preview_text' = preview_text]_vars

C6_Witness ==
  /\ ~preview_locked
  /\ last.op = "key_coords" /\ ~last.upd
  /\ coords_text # ""
  /\ ~Contains(preview_text, "* xyz")

-----------------------------------------------------------------------------
(* C7: save_input hands the file the assembler's output when the preview   *)
(* is locked and the preview's text when it is unlocked; nothing is        *)
(* written without a path; blank content is saved only after the user      *)
(* agreed to it.                                                           *)
C7_SaveInput ==
  last.op = "save_input" =>
    LET content == IF preview_locked THEN build_input(Inputs)
                   ELSE TextGet(preview_text)
    IN /\ last.asked <=> (Strip(content) = "")
       /\ last.outcome = "ok" => last.wrote = <<content>>
       /\ last.outcome \in {"cancel", "declined"} => last.wrote = <<>>
       /\ last.outcome = "declined" => last.asked
       /\ last.outcome \in {"cancel", "declined", "open_error", "write_error", "ok"}

C7_Witness ==
  /\ last.op = "save_input" /\ last.outcome = "ok"
  /\ ~preview_locked
  /\ preview_text = "! x"
  /\ last.wrote = <<"! x\n">>

-----------------------------------------------------------------------------
(* C8: a file operation that fails leaves the coordinate text, the         *)
(* custom-block text, the preview text, the lock and every option as they  *)
(* were.                                                                   *)
C8_FailureLeavesState ==
  [][last'.outcome \in {"open_error", "read_error", "write_error"}
       => UNCHANGED progvars]_vars

-----------------------------------------------------------------------------
(* C9: whenever preview_locked is true, the preview text is build_input of *)
(* the current inputs.                                                     *)
C9_PreviewNeverStale ==
  preview_locked => preview_text = build_input(Inputs)

-----------------------------------------------------------------------------
(* C10: while preview_locked is false, only load_template and direct edits *)
(* of the preview change the preview text.                                 *)
C10_UnlockedFrame ==
  [][(~preview_locked /\ last'.op \notin {"load_template", "edit_preview"})
       => preview_text' = preview_text]_vars

====
